---- MODULE Spec2Model ----
(***************************************************************************)
(* Model of aci_query_script.py: main() reads one JSON document from       *)
(* standard input, logs in to the APIC (authenticate_aci), issues one GET  *)
(* (query_aci_api) and prints one flat envelope.                           *)
(*                                                                         *)
(* Python values are modelled structurally, so that the duck-typed         *)
(* operations of the script ('in', len, [], .get, .rstrip, int, str) can   *)
(* raise exactly where Python raises.                                      *)
(***************************************************************************)
EXTENDS Integers, Sequences, FiniteSets, TLC

VARIABLES
    pc,          \* position of the single thread of control
    stdin,       \* what the caller wrote to standard input
    input_data,  \* main: json.loads(sys.stdin.read())
    apic_url,    \* main: local
    username,    \* main: local
    password,    \* main: local
    api_path,    \* main: local
    timeout,     \* main: local (an int)
    query_params,\* main: local
    session,     \* the requests.Session built by authenticate_aci
    result,      \* main: the value returned by query_aci_api
    exc,         \* the exception propagating to main's except clauses
    net,         \* the network calls issued so far, in order
    login_resp,  \* what the login POST came back with
    query_resp,  \* what the query GET came back with
    stdout,      \* the lines printed so far
    exit_code    \* process exit code, once terminated

vars == <<pc, stdin, input_data, apic_url, username, password, api_path,
          timeout, query_params, session, result, exc, net, login_resp, query_resp,
          stdout, exit_code>>

(***************************************************************************)
(* Bounds of the model.                                                    *)
(***************************************************************************)
MaxPathLen == 5      \* api_path strings of up to this many characters
MaxRecords == 2      \* imdata arrays of up to this many records
MaxClock == 11       \* time.time() returns 0 or this

(***************************************************************************)
(* JSON / Python values.  Every value is a record of the same shape:       *)
(*   t  type tag: "null" "bool" "num" "str" "arr" "obj"                    *)
(*   n  the number (or 0/1 for a bool)                                     *)
(*   s  the characters of a str                                            *)
(*   a  the elements of a list                                             *)
(*   o  the items of a dict, in order, as <<key, value>> pairs             *)
(***************************************************************************)
JNull == [t |-> "null", n |-> 0, s |-> <<>>, a |-> <<>>, o |-> <<>>]
JBool(b) == [t |-> "bool", n |-> IF b THEN 1 ELSE 0, s |-> <<>>, a |-> <<>>, o |-> <<>>]
JNum(k) == [t |-> "num", n |-> k, s |-> <<>>, a |-> <<>>, o |-> <<>>]
JStr(cs) == [t |-> "str", n |-> 0, s |-> cs, a |-> <<>>, o |-> <<>>]
JArr(xs) == [t |-> "arr", n |-> 0, s |-> <<>>, a |-> xs, o |-> <<>>]
JObj(kvs) == [t |-> "obj", n |-> 0, s |-> <<>>, a |-> <<>>, o |-> kvs]

\* The string literals the script uses as keys, as character sequences.
K_apic_url == <<"a", "p", "i", "c", "_", "u", "r", "l">>
K_username == <<"u", "s", "e", "r", "n", "a", "m", "e">>
K_password == <<"p", "a", "s", "s", "w", "o", "r", "d">>
K_api_path == <<"a", "p", "i", "_", "p", "a", "t", "h">>
K_timeout == <<"t", "i", "m", "e", "o", "u", "t">>
K_query_params == <<"q", "u", "e", "r", "y", "_", "p", "a", "r", "a", "m", "s">>
K_imdata == <<"i", "m", "d", "a", "t", "a">>
K_totalCount == <<"t", "o", "t", "a", "l", "C", "o", "u", "n", "t">>
K_aaaLogin == <<"a", "a", "a", "L", "o", "g", "i", "n">>
K_attributes == <<"a", "t", "t", "r", "i", "b", "u", "t", "e", "s">>
K_token == <<"t", "o", "k", "e", "n">>

\* A character sequence as one piece of text.
RECURSIVE Join(_)
Join(cs) == IF cs = <<>> THEN "" ELSE Head(cs) \o Join(Tail(cs))

\* str.startswith
StartsWith(cs, prefix) ==
    /\ Len(cs) >= Len(prefix)
    /\ SubSeq(cs, 1, Len(prefix)) = prefix

\* substring test of str.__contains__
Contains(cs, sub) ==
    \E i \in 1..(Len(cs) - Len(sub) + 1) : SubSeq(cs, i, i + Len(sub) - 1) = sub

\* str.rstrip('/')
RECURSIVE RStripSlash(_)
RStripSlash(cs) ==
    IF cs # <<>> /\ cs[Len(cs)] = "/" THEN RStripSlash(SubSeq(cs, 1, Len(cs) - 1)) ELSE cs

\* str(int) for a non-negative int
Digit == <<"0", "1", "2", "3", "4", "5", "6", "7", "8", "9">>
RECURSIVE DecStr(_)
DecStr(k) == IF k < 10 THEN Digit[k + 1] ELSE DecStr(k \div 10) \o Digit[(k % 10) + 1]

\* type(v).__name__
TypeName(v) ==
    CASE v.t = "null" -> "NoneType"
      [] v.t = "bool" -> "bool"
      [] v.t = "num" -> "int"
      [] v.t = "str" -> "str"
      [] v.t = "arr" -> "list"
      [] v.t = "obj" -> "dict"

\* bool(v)
Truthy(v) ==
    CASE v.t = "null" -> FALSE
      [] v.t = "bool" -> v.n = 1
      [] v.t = "num" -> v.n # 0
      [] v.t = "str" -> v.s # <<>>
      [] v.t = "arr" -> v.a # <<>>
      [] v.t = "obj" -> v.o # <<>>

(***************************************************************************)
(* Exceptions.  An exception has a class and a message; the message is a   *)
(* sequence of text fragments whose concatenation is str(e).               *)
(***************************************************************************)
NoExc == [cls |-> "none", msg |-> <<>>]
Exc(cls, msg) == [cls |-> cls, msg |-> msg]

\* The classes an exception of class c is an instance of.
Bases(c) ==
    CASE c = "ACIQueryError" -> {"ACIQueryError", "Exception"}
      [] c = "TypeError" -> {"TypeError", "Exception"}
      [] c = "AttributeError" -> {"AttributeError", "Exception"}
      [] c = "KeyError" -> {"KeyError", "Exception"}
      [] c = "IndexError" -> {"IndexError", "Exception"}
      [] c = "ValueError" -> {"ValueError", "Exception"}
      [] c = "json.JSONDecodeError" -> {"json.JSONDecodeError", "ValueError", "Exception"}
      [] c = "requests.JSONDecodeError" ->
            {"requests.JSONDecodeError", "requests.RequestException",
             "json.JSONDecodeError", "ValueError", "Exception"}
      [] c = "requests.ConnectionError" ->
            {"requests.ConnectionError", "requests.RequestException", "Exception"}
      [] c = "requests.Timeout" ->
            {"requests.Timeout", "requests.RequestException", "Exception"}
      [] c = "requests.HTTPError" ->
            {"requests.HTTPError", "requests.RequestException", "Exception"}

\* The first except clause (1-based) that catches e, 0 when none does.
FirstMatch(e, clauses) ==
    IF \E i \in 1..Len(clauses) : clauses[i] \in Bases(e.cls)
    THEN CHOOSE i \in 1..Len(clauses) :
            /\ clauses[i] \in Bases(e.cls)
            /\ \A j \in 1..(i - 1) : clauses[j] \notin Bases(e.cls)
    ELSE 0

\* The outcome of evaluating an expression: a value or a raised exception.
Ok(v) == [ok |-> TRUE, val |-> v, exc |-> NoExc]
Raise(cls, msg) == [ok |-> FALSE, val |-> JNull, exc |-> Exc(cls, msg)]

\* key in v   (key a str)
PyIn(key, v) ==
    CASE v.t = "obj" -> Ok(JBool(\E i \in 1..Len(v.o) : v.o[i][1] = key))
      [] v.t = "arr" -> Ok(JBool(\E i \in 1..Len(v.a) : v.a[i] = JStr(key)))
      [] v.t = "str" -> Ok(JBool(Contains(v.s, key)))
      [] OTHER -> Raise("TypeError",
                        <<"argument of type '", TypeName(v), "' is not iterable">>)

\* v[key]   (key a str)
GetItem(v, key) ==
    CASE v.t = "obj" ->
            IF \E i \in 1..Len(v.o) : v.o[i][1] = key
            THEN Ok(v.o[CHOOSE i \in 1..Len(v.o) : v.o[i][1] = key][2])
            ELSE Raise("KeyError", <<"'", Join(key), "'">>)
      [] v.t = "arr" ->
            Raise("TypeError", <<"list indices must be integers or slices, not str">>)
      [] v.t = "str" ->
            Raise("TypeError", <<"string indices must be integers, not 'str'">>)
      [] OTHER -> Raise("TypeError", <<"'", TypeName(v), "' object is not subscriptable">>)

\* v[0]
GetFirst(v) ==
    CASE v.t = "arr" ->
            IF v.a # <<>> THEN Ok(v.a[1])
            ELSE Raise("IndexError", <<"list index out of range">>)
      [] v.t = "str" ->
            IF v.s # <<>> THEN Ok(JStr(<<v.s[1]>>))
            ELSE Raise("IndexError", <<"string index out of range">>)
      [] v.t = "obj" -> Raise("KeyError", <<"0">>)
      [] OTHER -> Raise("TypeError", <<"'", TypeName(v), "' object is not subscriptable">>)

\* len(v)
PyLen(v) ==
    CASE v.t = "obj" -> Ok(JNum(Len(v.o)))
      [] v.t = "arr" -> Ok(JNum(Len(v.a)))
      [] v.t = "str" -> Ok(JNum(Len(v.s)))
      [] OTHER -> Raise("TypeError", <<"object of type '", TypeName(v), "' has no len()">>)

\* v.get(key, default)
PyGet(v, key, default) ==
    IF v.t = "obj"
    THEN IF \E i \in 1..Len(v.o) : v.o[i][1] = key
         THEN Ok(v.o[CHOOSE i \in 1..Len(v.o) : v.o[i][1] = key][2])
         ELSE Ok(default)
    ELSE Raise("AttributeError", <<"'", TypeName(v), "' object has no attribute 'get'">>)

\* Variant: the value is passed on as it is when it has no rstrip.
PyRStrip_Lenient(v) ==
    IF v.t = "str" THEN Ok(JStr(RStripSlash(v.s))) ELSE Ok(v)

\* v.rstrip('/')
PyRStrip(v) ==
    IF v.t = "str" THEN Ok(JStr(RStripSlash(v.s)))
    ELSE Raise("AttributeError", <<"'", TypeName(v), "' object has no attribute 'rstrip'">>)

\* The value of a str of decimal digits.
RECURSIVE ParseDec(_)
ParseDec(cs) ==
    IF cs = <<>> THEN 0
    ELSE 10 * ParseDec(SubSeq(cs, 1, Len(cs) - 1))
         + ((CHOOSE d \in 1..10 : Digit[d] = cs[Len(cs)]) - 1)

IsDecimal(cs) == cs # <<>> /\ \A i \in 1..Len(cs) : \E d \in 1..10 : Digit[d] = cs[i]

\* int(v)
PyInt(v) ==
    CASE v.t \in {"num", "bool"} -> Ok(JNum(v.n))
      [] v.t = "str" ->
            IF IsDecimal(v.s) THEN Ok(JNum(ParseDec(v.s)))
            ELSE Raise("ValueError",
                       <<"invalid literal for int() with base 10: '", Join(v.s), "'">>)
      [] OTHER -> Raise("TypeError",
                        <<"int() argument must be a string, a bytes-like object or a real number, not '",
                          TypeName(v), "'">>)

\* repr(v) and str(v)
RECURSIVE PyRepr(_), PyReprItems(_, _), PyReprPairs(_, _)
PyRepr(v) ==
    CASE v.t = "null" -> "None"
      [] v.t = "bool" -> IF v.n = 1 THEN "True" ELSE "False"
      [] v.t = "num" -> DecStr(v.n)
      [] v.t = "str" -> "'" \o Join(v.s) \o "'"
      [] v.t = "arr" -> "[" \o PyReprItems(v.a, 1) \o "]"
      [] v.t = "obj" -> "{" \o PyReprPairs(v.o, 1) \o "}"
PyReprItems(xs, i) ==
    IF i > Len(xs) THEN ""
    ELSE PyRepr(xs[i]) \o (IF i < Len(xs) THEN ", " ELSE "") \o PyReprItems(xs, i + 1)
PyReprPairs(kvs, i) ==
    IF i > Len(kvs) THEN ""
    ELSE "'" \o Join(kvs[i][1]) \o "': " \o PyRepr(kvs[i][2])
         \o (IF i < Len(kvs) THEN ", " ELSE "") \o PyReprPairs(kvs, i + 1)

PyStr(v) == IF v.t = "str" THEN Join(v.s) ELSE PyRepr(v)

\* json.dumps(v)
RECURSIVE Dumps(_), DumpsItems(_, _), DumpsPairs(_, _)
Dumps(v) ==
    CASE v.t = "null" -> "null"
      [] v.t = "bool" -> IF v.n = 1 THEN "true" ELSE "false"
      [] v.t = "num" -> DecStr(v.n)
      [] v.t = "str" -> "\"" \o Join(v.s) \o "\""
      [] v.t = "arr" -> "[" \o DumpsItems(v.a, 1) \o "]"
      [] v.t = "obj" -> "{" \o DumpsPairs(v.o, 1) \o "}"
DumpsItems(xs, i) ==
    IF i > Len(xs) THEN ""
    ELSE Dumps(xs[i]) \o (IF i < Len(xs) THEN ", " ELSE "") \o DumpsItems(xs, i + 1)
DumpsPairs(kvs, i) ==
    IF i > Len(kvs) THEN ""
    ELSE "\"" \o Join(kvs[i][1]) \o "\": " \o Dumps(kvs[i][2])
         \o (IF i < Len(kvs) THEN ", " ELSE "") \o DumpsPairs(kvs, i + 1)

\* A Python str held in the output dict: its type and its text fragments.
Text(fragments) == [t |-> "str", v |-> fragments]

(***************************************************************************)
(* The inputs of a run: standard input and the two HTTP exchanges.         *)
(***************************************************************************)
Absent == [t |-> "absent", n |-> 0, s |-> <<>>, a |-> <<>>, o |-> <<>>]

\* A JSON object holding the listed members that are present.
Members(kvs) == JObj(SelectSeq(kvs, LAMBDA kv : kv[2] # Absent))

Request(url, name, pwd, path, tmo, params) ==
    Members(<< <<K_apic_url, url>>, <<K_username, name>>, <<K_password, pwd>>,
               <<K_api_path, path>>, <<K_timeout, tmo>>, <<K_query_params, params>> >>)

Url == <<"h">>
User == <<"u">>
Pwd == <<"s">>
Path == <<"c">>
PathUnderApi == <<"/", "a", "p", "i", "/", "c">>

UrlVals == {Absent, JNull, JStr(Url), JStr(Url \o <<"/", "/">>)}
NameVals == {Absent, JNull, JStr(User)}
PwdVals == {Absent, JNull, JStr(Pwd)}
PathVals == {Absent, JNull, JStr(Path), JStr(PathUnderApi)}
TimeoutVals == {Absent, JNull, JNum(5), JStr(<<"1", "2">>), JStr(<<"x">>)}
ParamVals == {JNull, JObj(<< <<<<"k">>, JStr(<<"v">>)>> >>)}

StdinDocs ==
    {JNull, JNum(5), JArr(<<>>), JStr(<<"x">>),
     JStr(K_apic_url \o K_username \o K_password \o K_api_path),
     JArr(<<JStr(K_apic_url), JStr(K_username), JStr(K_password), JStr(K_api_path)>>)}
    \cup {Request(u, n, p, a, t, Absent) :
            u \in UrlVals, n \in NameVals, p \in PwdVals, a \in PathVals, t \in TimeoutVals}
    \cup {Request(JStr(Url), JStr(User), JStr(Pwd), JStr(Path), Absent, q) : q \in ParamVals}

\* Standard input: text that is not JSON, or the text of a JSON document.
StdinInputs ==
    {[valid |-> FALSE, val |-> JNull]} \cup {[valid |-> TRUE, val |-> d] : d \in StdinDocs}

\* Login response bodies: every way the path imdata[0].aaaLogin.attributes.token
\* can be present, absent or blocked by a value of another type.
TokenVals == {Absent, JNull, JStr(<<>>), JStr(<<"T">>), JNum(0), JNum(7)}
AttrVals ==
    {Absent, JNull, JNum(1)} \cup {Members(<< <<K_token, t>> >>) : t \in TokenVals}
LoginVals ==
    {Absent, JNull, JStr(<<"x">>)} \cup {Members(<< <<K_attributes, a>> >>) : a \in AttrVals}
FirstVals ==
    {JNull, JNum(5)} \cup {Members(<< <<K_aaaLogin, l>> >>) : l \in LoginVals}
LoginImdataVals ==
    {Absent, JNull, JNum(5), JStr(<<"x">>), JArr(<<>>), JObj(<<>>),
     JObj(<< <<<<"k">>, JNull>> >>)}
    \cup {JArr(<<f>>) : f \in FirstVals}
LoginBodies ==
    {JNull, JNum(5), JStr(K_imdata), JArr(<<>>), JArr(<<JStr(K_imdata)>>)}
    \cup {Members(<< <<K_imdata, im>> >>) : im \in LoginImdataVals}

\* Query response bodies.
Records(k) == JArr([i \in 1..k |-> JObj(<< <<<<"a">>, JNum(i)>> >>)])
QueryImdataVals ==
    {Absent, JNull, JNum(5), JBool(TRUE), JStr(<<"a", "b">>), JObj(<<>>)}
    \cup {Records(k) : k \in 0..MaxRecords}
QueryTotalVals ==
    {Absent, JNull, JStr(<<"2">>), JNum(2), JBool(FALSE), JArr(<<JNum(1)>>)}
QueryBodies ==
    {JNull, JBool(TRUE), JNum(5), JStr(<<"x">>), JStr(K_imdata), JStr(K_totalCount),
     JArr(<<>>), JArr(<<JNum(1)>>), JArr(<<JStr(K_imdata)>>), JArr(<<JStr(K_totalCount)>>)}
    \cup {Members(<< <<K_imdata, im>>, <<K_totalCount, tc>> >>) :
            im \in QueryImdataVals, tc \in QueryTotalVals}

\* What Response.json() raises on a body that is not JSON depends on the
\* installed requests: from 2.27 on it raises requests.JSONDecodeError (both a
\* RequestException and a json.JSONDecodeError), before that the standard
\* library's json.JSONDecodeError.
JsonErrorClasses == {"requests.JSONDecodeError", "json.JSONDecodeError"}

\* The ways one blocking HTTP call can come back.  It can time out only when
\* the call was given a timeout.
Outcomes(bodies, call_timeout) ==
    {[kind |-> "error", status |-> 0, valid |-> FALSE, body |-> JNull, errcls |-> c] :
        c \in {"requests.ConnectionError"}
              \cup (IF call_timeout # {} THEN {"requests.Timeout"} ELSE {})}
    \cup {[kind |-> "response", status |-> st, valid |-> FALSE, body |-> JNull,
           errcls |-> "none"] : st \in {401, 500}}
    \cup {[kind |-> "response", status |-> 200, valid |-> FALSE, body |-> JNull,
           errcls |-> c] : c \in JsonErrorClasses}
    \cup {[kind |-> "response", status |-> 200, valid |-> TRUE, body |-> b,
           errcls |-> "none"] : b \in bodies}

NoOutcome == [kind |-> "none", status |-> 0, valid |-> FALSE, body |-> JNull, errcls |-> "none"]

(***************************************************************************)
(* main, lines 87-104: parse standard input, check and read the fields.    *)
(***************************************************************************)
DefaultTimeout == 30

\* Variant: password is checked before username.
RequiredParams_Reordered == <<K_apic_url, K_password, K_username, K_api_path>>

RequiredParams == <<K_apic_url, K_username, K_password, K_api_path>>

\* The loop of lines 93-95, from the i-th required parameter on.
RECURSIVE CheckRequired(_, _)
CheckRequired(d, i) ==
    IF i > Len(RequiredParams) THEN Ok(JNull)
    ELSE LET present == PyIn(RequiredParams[i], d)
         IN  IF ~present.ok THEN present
             ELSE IF ~Truthy(present.val)
                  THEN Raise("ACIQueryError",
                             <<"Missing required parameter: ", Join(RequiredParams[i])>>)
                  ELSE CheckRequired(d, i + 1)

\* Lines 92-104 on input_data d: the locals, or the first exception raised.
ReadParams(d) ==
    LET chk == CheckRequired(d, 1)
        u0 == GetItem(d, K_apic_url)
        u == IF u0.ok THEN PyRStrip(u0.val) ELSE u0
        n == GetItem(d, K_username)
        p == GetItem(d, K_password)
        a == GetItem(d, K_api_path)
        t0 == PyGet(d, K_timeout, JNum(DefaultTimeout))
        t == IF t0.ok THEN PyInt(t0.val) ELSE t0
        q == PyGet(d, K_query_params, JObj(<<>>))
        steps == <<chk, u, n, p, a, t, q>>
        failed == {i \in 1..Len(steps) : ~steps[i].ok}
        first == CHOOSE i \in failed : \A j \in failed : i <= j
    IN  IF failed = {}
        THEN [ok |-> TRUE, exc |-> NoExc, apic_url |-> u.val, username |-> n.val,
              password |-> p.val, api_path |-> a.val, timeout |-> t.val,
              query_params |-> q.val]
        ELSE [ok |-> FALSE, exc |-> steps[first].exc, apic_url |-> JNull,
              username |-> JNull, password |-> JNull, api_path |-> JNull,
              timeout |-> JNull, query_params |-> JNull]

(***************************************************************************)
(* The HTTP layer (requests).                                              *)
(***************************************************************************)
\* The timeout a call made through the session waits with: the one passed to
\* the call ({} is None, wait for ever).  post() and get() are called without
\* one, and requests does not read the attribute set on the session.
RequestTimeout(sess) == {}

LoginPath == <<"/", "a", "p", "i", "/", "a", "a", "a", "L", "o", "g", "i", "n",
               ".", "j", "s", "o", "n">>

LoginPayload(name, pwd) ==
    JObj(<< <<<<"a", "a", "a", "U", "s", "e", "r">>,
              JObj(<< <<K_attributes,
                        JObj(<< <<<<"n", "a", "m", "e">>, name>>,
                                <<<<"p", "w", "d">>, pwd>> >>)>> >>)>> >>)

\* One call made through the session: the pair given to urljoin, the body or
\* the query parameters, and what the session adds.
Call(method, base, path, data, sess) ==
    [method |-> method, base |-> base, path |-> path, data |-> data,
     Cookie |-> sess.Cookie, verify |-> sess.verify, timeout |-> RequestTimeout(sess)]

\* session.post / session.get, raise_for_status() and json() on outcome o.
HttpJson(o) ==
    IF o.kind = "error" THEN Raise(o.errcls, <<"transport failure">>)
    ELSE IF o.status >= 400 /\ o.status < 600
         THEN Raise("requests.HTTPError", <<DecStr(o.status), " Error">>)
         ELSE IF ~o.valid
              THEN Raise(o.errcls, <<"Expecting value: line 1 column 1 (char 0)">>)
              ELSE Ok(o.body)

(***************************************************************************)
(* authenticate_aci, lines 40-57.                                          *)
(***************************************************************************)
\* Lines 45-52 on the parsed login response: the token, or what is raised.
TokenOf(login_data) ==
    LET NoToken == Raise("ACIQueryError", <<"Authentication failed - no token received">>)
        has == PyIn(K_imdata, login_data)
        im == GetItem(login_data, K_imdata)
        ln == IF im.ok THEN PyLen(im.val) ELSE im
        first == GetFirst(im.val)
        lg == IF first.ok THEN PyGet(first.val, K_aaaLogin, JObj(<<>>)) ELSE first
        at == IF lg.ok THEN PyGet(lg.val, K_attributes, JObj(<<>>)) ELSE lg
        tk == IF at.ok THEN PyGet(at.val, K_token, JNull) ELSE at
    IN  IF ~has.ok THEN has
        ELSE IF ~Truthy(has.val) THEN NoToken
        ELSE IF ~ln.ok THEN ln
        ELSE IF ~(ln.val.n > 0) THEN NoToken
        ELSE IF ~tk.ok THEN tk
        ELSE IF Truthy(tk.val) THEN tk
        ELSE NoToken

\* The except clauses of lines 54-57, in their written order.
AuthClauses == <<"requests.RequestException", "json.JSONDecodeError">>

\* The try statement of lines 40-57 on outcome o: the token or what escapes.
Authenticate(o) ==
    LET h == HttpJson(o)
        r == IF h.ok THEN TokenOf(h.val) ELSE h
        m == FirstMatch(r.exc, AuthClauses)
    IN  IF r.ok THEN r
        ELSE CASE m = 1 -> Raise("ACIQueryError",
                                 <<"Authentication request failed: ">> \o r.exc.msg)
               [] m = 2 -> Raise("ACIQueryError",
                                 <<"Invalid JSON response during authentication: ">>
                                 \o r.exc.msg)
               [] OTHER -> r

\* Variant: the f prefix of the string is missing.
CookieHeader_NotFormatted(token) == <<"APIC-cookie={token}">>

\* Line 49: the header the session sends from now on.
CookieHeader(token) == <<"APIC-cookie=", PyStr(token)>>

(***************************************************************************)
(* query_aci_api, lines 63-81.                                             *)
(***************************************************************************)
ApiPrefix == <<"/", "a", "p", "i">>

\* Variant: the inner test on a leading "/" is missing.
NormalizePath_AlwaysSlash(cs) ==
    IF ~StartsWith(cs, ApiPrefix) THEN ApiPrefix \o <<"/">> \o cs ELSE cs

\* Lines 64-68 on a str.
NormalizePath(cs) ==
    IF ~StartsWith(cs, ApiPrefix)
    THEN IF StartsWith(cs, <<"/">>) THEN ApiPrefix \o cs
         ELSE ApiPrefix \o <<"/">> \o cs
    ELSE cs

\* Lines 64-68 on whatever api_path holds.
EffectivePath(path) ==
    IF path.t = "str" THEN Ok(JStr(NormalizePath(path.s)))
    ELSE Raise("AttributeError",
               <<"'", TypeName(path), "' object has no attribute 'startswith'">>)

\* The except clauses of lines 78-81, in their written order.
QueryClauses == <<"requests.RequestException", "json.JSONDecodeError">>

\* The try statement of lines 72-81 on outcome o.
Query(o) ==
    LET r == HttpJson(o)
        m == FirstMatch(r.exc, QueryClauses)
    IN  IF r.ok THEN r
        ELSE CASE m = 1 -> Raise("ACIQueryError", <<"API query failed: ">> \o r.exc.msg)
               [] m = 2 -> Raise("ACIQueryError",
                                 <<"Invalid JSON response from API: ">> \o r.exc.msg)
               [] OTHER -> r

(***************************************************************************)
(* main, lines 112-159: the two envelopes.  A dict of the output is a      *)
(* sequence of <<key, value>> pairs.                                       *)
(***************************************************************************)
\* Variant: str(result) in place of json.dumps(result).
JsonData_Repr(res) == PyStr(res)

\* Line 115: the value of json_data.
JsonData(res) == Dumps(res)

\* Lines 114-125 on the query result: the output dict, or what is raised.
SuccessOutput(res, now) ==
    LET base == << <<"json_data", Text(<<JsonData(res)>>)>>,
                   <<"status", Text(<<"success">>)>>,
                   <<"timestamp", Text(<<DecStr(now)>>)>> >>
        has1 == PyIn(K_imdata, res)
        im == GetItem(res, K_imdata)
        ln == IF im.ok THEN PyLen(im.val) ELSE im
        with1 == IF Truthy(has1.val)
                 THEN Append(base, <<"record_count", Text(<<DecStr(ln.val.n)>>)>>)
                 ELSE base
        has2 == PyIn(K_totalCount, res)
        tc == GetItem(res, K_totalCount)
        with2 == IF Truthy(has2.val)
                 THEN Append(with1, <<"total_count", Text(<<PyStr(tc.val)>>)>>)
                 ELSE with1
    IN  IF ~has1.ok THEN [ok |-> FALSE, exc |-> has1.exc, out |-> <<>>]
        ELSE IF Truthy(has1.val) /\ ~ln.ok THEN [ok |-> FALSE, exc |-> ln.exc, out |-> <<>>]
        ELSE IF ~has2.ok THEN [ok |-> FALSE, exc |-> has2.exc, out |-> <<>>]
        ELSE IF Truthy(has2.val) /\ ~tc.ok THEN [ok |-> FALSE, exc |-> tc.exc, out |-> <<>>]
        ELSE [ok |-> TRUE, exc |-> NoExc, out |-> with2]

\* Variant: main without its last clause, except Exception.
MainClauses_NoCatchAll == <<"ACIQueryError", "json.JSONDecodeError">>

\* The except clauses of main, lines 130, 141 and 151, in their written order.
MainClauses == <<"ACIQueryError", "json.JSONDecodeError", "Exception">>

\* The message each clause prints for exception e.
ErrorMessage(e, clause) ==
    CASE clause = 1 -> e.msg
      [] clause = 2 -> <<"Invalid input JSON: ">> \o e.msg
      [] clause = 3 -> <<"Unexpected error: ">> \o e.msg

\* Variant: the error envelope without json_data.
ErrorOutput_NoJsonData(e, clause, now) ==
    << <<"status", Text(<<"error">>)>>,
       <<"error_message", Text(ErrorMessage(e, clause))>>,
       <<"timestamp", Text(<<DecStr(now)>>)>> >>

\* Lines 132-137, 142-147, 152-157.
ErrorOutput(e, clause, now) ==
    << <<"json_data", Text(<<"{}">>)>>,
       <<"status", Text(<<"error">>)>>,
       <<"error_message", Text(ErrorMessage(e, clause))>>,
       <<"timestamp", Text(<<DecStr(now)>>)>> >>

\* time.time(), truncated.
Clock == {0, MaxClock}

(***************************************************************************)
(* The run.                                                                *)
(***************************************************************************)
NoSession == [verify |-> TRUE, timeout |-> JNull, Cookie |-> <<>>]

Init ==
    /\ pc = "read"
    /\ stdin \in StdinInputs
    /\ input_data = JNull
    /\ apic_url = JNull
    /\ username = JNull
    /\ password = JNull
    /\ api_path = JNull
    /\ timeout = JNull
    /\ query_params = JNull
    /\ session = NoSession
    /\ result = JNull
    /\ exc = NoExc
    /\ net = <<>>
    /\ login_resp = NoOutcome
    /\ query_resp = NoOutcome
    /\ stdout = <<>>
    /\ exit_code = {}

\* Line 89: input_data = json.loads(sys.stdin.read())
ReadInput ==
    /\ pc = "read"
    /\ IF stdin.valid
       THEN /\ input_data' = stdin.val
            /\ pc' = "params"
            /\ exc' = exc
       ELSE /\ exc' = Exc("json.JSONDecodeError",
                          <<"Expecting value: line 1 column 1 (char 0)">>)
            /\ pc' = "except"
            /\ input_data' = input_data
    /\ UNCHANGED <<stdin, apic_url, username, password, api_path, timeout, query_params,
                   session, result, net, login_resp, query_resp, stdout, exit_code>>

\* Lines 92-104.
CheckParams ==
    /\ pc = "params"
    /\ LET r == ReadParams(input_data)
       IN  IF r.ok
           THEN /\ apic_url' = r.apic_url
                /\ username' = r.username
                /\ password' = r.password
                /\ api_path' = r.api_path
                /\ timeout' = r.timeout
                /\ query_params' = r.query_params
                /\ pc' = "login"
                /\ exc' = exc
           ELSE /\ exc' = r.exc
                /\ pc' = "except"
                /\ UNCHANGED <<apic_url, username, password, api_path, timeout,
                               query_params>>
    /\ UNCHANGED <<stdin, input_data, session, result, net, login_resp, query_resp,
                   stdout, exit_code>>

\* Lines 107 and 26-41: build the session and send the login POST.
SendLogin ==
    /\ pc = "login"
    /\ LET sess == [verify |-> FALSE, timeout |-> timeout, Cookie |-> <<>>]
       IN  /\ session' = sess
           /\ net' = Append(net, Call("POST", apic_url, LoginPath,
                                      LoginPayload(username, password), sess))
    /\ pc' = "login_wait"
    /\ UNCHANGED <<stdin, input_data, apic_url, username, password, api_path, timeout,
                   query_params, result, exc, login_resp, query_resp, stdout, exit_code>>

\* Lines 41-57: the login POST comes back with outcome o.
LoginReturns(o) ==
    /\ pc = "login_wait"
    /\ login_resp' = o
    /\ LET r == Authenticate(o)
       IN  IF r.ok
           THEN /\ session' = [session EXCEPT !.Cookie = CookieHeader(r.val)]
                /\ pc' = "query"
                /\ exc' = exc
           ELSE /\ exc' = r.exc
                /\ pc' = "except"
                /\ session' = session
    /\ UNCHANGED <<stdin, input_data, apic_url, username, password, api_path, timeout,
                   query_params, result, net, query_resp, stdout, exit_code>>

LoginRespond ==
    /\ pc = "login_wait"
    /\ \E o \in Outcomes(LoginBodies, net[Len(net)].timeout) : LoginReturns(o)

\* Lines 110 and 63-73: normalise the path and send the query GET.
SendQuery ==
    /\ pc = "query"
    /\ LET path == EffectivePath(api_path)
       IN  IF path.ok
           THEN /\ net' = Append(net, Call("GET", apic_url, path.val.s, query_params,
                                           session))
                /\ pc' = "query_wait"
                /\ exc' = exc
           ELSE /\ exc' = path.exc
                /\ pc' = "except"
                /\ net' = net
    /\ UNCHANGED <<stdin, input_data, apic_url, username, password, api_path, timeout,
                   query_params, session, result, login_resp, query_resp, stdout,
                   exit_code>>

\* Lines 73-81: the query GET comes back with outcome o.
QueryReturns(o) ==
    /\ pc = "query_wait"
    /\ query_resp' = o
    /\ LET r == Query(o)
       IN  IF r.ok
           THEN /\ result' = r.val
                /\ pc' = "format"
                /\ exc' = exc
           ELSE /\ exc' = r.exc
                /\ pc' = "except"
                /\ result' = result
    /\ UNCHANGED <<stdin, input_data, apic_url, username, password, api_path, timeout,
                   query_params, session, net, login_resp, stdout, exit_code>>

QueryRespond ==
    /\ pc = "query_wait"
    /\ \E o \in Outcomes(QueryBodies, net[Len(net)].timeout) : QueryReturns(o)

\* Lines 112-128: build the success envelope, print it, return from main.
FormatOutput ==
    /\ pc = "format"
    /\ \E now \in Clock :
          LET r == SuccessOutput(result, now)
          IN  IF r.ok
              THEN /\ stdout' = Append(stdout, r.out)
                   /\ exit_code' = {0}
                   /\ pc' = "done"
                   /\ exc' = exc
              ELSE /\ exc' = r.exc
                   /\ pc' = "except"
                   /\ UNCHANGED <<stdout, exit_code>>
    /\ UNCHANGED <<stdin, input_data, apic_url, username, password, api_path, timeout,
                   query_params, session, result, net, login_resp, query_resp>>

\* Lines 130-159: the first matching clause prints the error envelope and
\* exits 1; an exception no clause matches ends the process with a traceback.
HandleError ==
    /\ pc = "except"
    /\ LET clause == FirstMatch(exc, MainClauses)
       IN  IF clause = 0
           THEN /\ pc' = "crashed"
                /\ exit_code' = {1}
                /\ stdout' = stdout
           ELSE \E now \in Clock :
                   /\ stdout' = Append(stdout, ErrorOutput(exc, clause, now))
                   /\ exit_code' = {1}
                   /\ pc' = "done"
    /\ UNCHANGED <<stdin, input_data, apic_url, username, password, api_path, timeout,
                   query_params, session, result, exc, net, login_resp, query_resp>>

\* The steps the interpreter takes on its own.
ProgramStep ==
    \/ ReadInput
    \/ CheckParams
    \/ SendLogin
    \/ SendQuery
    \/ FormatOutput
    \/ HandleError

\* A blocking call that was given a timeout gives up when it expires.
TimeoutExpires ==
    \/ /\ pc = "login_wait"
       /\ \E o \in Outcomes(LoginBodies, net[Len(net)].timeout) :
             o.errcls = "requests.Timeout" /\ LoginReturns(o)
    \/ /\ pc = "query_wait"
       /\ \E o \in Outcomes(QueryBodies, net[Len(net)].timeout) :
             o.errcls = "requests.Timeout" /\ QueryReturns(o)

Next ==
    \/ ReadInput
    \/ CheckParams
    \/ SendLogin
    \/ LoginRespond
    \/ SendQuery
    \/ QueryRespond
    \/ FormatOutput
    \/ HandleError

Spec == Init /\ [][Next]_vars

\* The interpreter keeps running, and a timeout that was set expires; whether
\* the server ever answers is up to the server.
FairSpec == Spec /\ WF_vars(ProgramStep) /\ WF_vars(TimeoutExpires)

(***************************************************************************)
(* The normalisation of api_path on its own: the run stands right before   *)
(* line 110, logged in, with api_path any string of the bound.             *)
(***************************************************************************)
PathAlphabet == {"/", "a", "p", "i"}
AllPaths == UNION {[1..k -> PathAlphabet] : k \in 0..MaxPathLen}

LoggedIn == [kind |-> "response", status |-> 200, valid |-> TRUE,
             body |-> Members(<< <<K_imdata,
                        JArr(<<Members(<< <<K_aaaLogin,
                            Members(<< <<K_attributes,
                                Members(<< <<K_token, JStr(<<"T">>)>> >>)>> >>)>> >>)>>)>> >>),
             errcls |-> "none"]

PathInit ==
    /\ pc = "query"
    /\ \E cs \in AllPaths :
          /\ api_path = JStr(cs)
          /\ stdin = [valid |-> TRUE,
                      val |-> Request(JStr(Url), JStr(User), JStr(Pwd), JStr(cs),
                                      Absent, Absent)]
    /\ input_data = stdin.val
    /\ apic_url = JStr(Url)
    /\ username = JStr(User)
    /\ password = JStr(Pwd)
    /\ timeout = JNum(DefaultTimeout)
    /\ query_params = JObj(<<>>)
    /\ session = [verify |-> FALSE, timeout |-> timeout,
                  Cookie |-> CookieHeader(JStr(<<"T">>))]
    /\ result = JNull
    /\ exc = NoExc
    /\ net = <<Call("POST", apic_url, LoginPath, LoginPayload(username, password),
                    [session EXCEPT !.Cookie = <<>>])>>
    /\ login_resp = LoggedIn
    /\ query_resp = NoOutcome
    /\ stdout = <<>>
    /\ exit_code = {}

PathSpec == PathInit /\ [][SendQuery]_vars

(***************************************************************************)
(* Vocabulary of the properties.                                           *)
(***************************************************************************)
Keys(out) == {out[i][1] : i \in 1..Len(out)}
Value(out, k) == out[CHOOSE i \in 1..Len(out) : out[i][1] = k][2]
HasMember(v, key) == v.t = "obj" /\ \E i \in 1..Len(v.o) : v.o[i][1] = key
Member(v, key) == v.o[CHOOSE i \in 1..Len(v.o) : v.o[i][1] = key][2]
Posts == {i \in 1..Len(net) : net[i].method = "POST"}
Gets == {i \in 1..Len(net) : net[i].method = "GET"}
Is2xxJson(o) == o.kind = "response" /\ o.status \in 200..299 /\ o.valid
Is2xxNotJson(o) == o.kind = "response" /\ o.status \in 200..299 /\ ~o.valid
Terminated == pc = "done"
AllPresent(d) == \A i \in 1..Len(RequiredParams) : HasMember(d, RequiredParams[i])

\* One object of string members, keys distinct: what json.dumps prints for it
\* is one well-formed JSON object.
WellFormedEnvelope(out) ==
    /\ \A i, j \in 1..Len(out) : out[i][1] = out[j][1] => i = j
    /\ \A i \in 1..Len(out) : out[i][2].t = "str"

IsError(out) ==
    /\ Keys(out) = {"json_data", "status", "error_message", "timestamp"}
    /\ Value(out, "json_data").v = <<"{}">>
    /\ Value(out, "status").v = <<"error">>

\* The token a login body carries at imdata[0].aaaLogin.attributes.token.
CarriesToken(body) ==
    /\ HasMember(body, K_imdata)
    /\ Member(body, K_imdata).t = "arr"
    /\ Member(body, K_imdata).a # <<>>
    /\ HasMember(Member(body, K_imdata).a[1], K_aaaLogin)
    /\ HasMember(Member(Member(body, K_imdata).a[1], K_aaaLogin), K_attributes)
    /\ HasMember(Member(Member(Member(body, K_imdata).a[1], K_aaaLogin), K_attributes),
                 K_token)
TokenAt(body) ==
    Member(Member(Member(Member(body, K_imdata).a[1], K_aaaLogin), K_attributes), K_token)
ValidToken(body) ==
    /\ CarriesToken(body)
    /\ TokenAt(body) \notin {JNull, JStr(<<>>), JNum(0), JBool(FALSE)}

\* The JSON document a text is the serialisation of.
Loads(text) ==
    IF \E v \in QueryBodies : Dumps(v) = text
    THEN CHOOSE v \in QueryBodies : Dumps(v) = text
    ELSE Absent

(***************************************************************************)
(* C1: every run that ends has printed exactly one well-formed JSON object *)
(* and nothing before it ends; the exit code is 0 exactly when its status  *)
(* is "success" and 1 exactly when it is "error"; no exception escapes     *)
(* main.                                                                   *)
(***************************************************************************)
C1_OneEnvelopeAndExitCode ==
    /\ pc # "crashed"
    /\ ~Terminated => stdout = <<>> /\ exit_code = {}
    /\ Terminated =>
          /\ Len(stdout) = 1
          /\ WellFormedEnvelope(stdout[1])
          /\ "status" \in Keys(stdout[1])
          /\ Value(stdout[1], "status").v \in {<<"success">>, <<"error">>}
          /\ exit_code \in {{0}, {1}}
          /\ exit_code = {0} <=> Value(stdout[1], "status").v = <<"success">>
          /\ exit_code = {1} <=> Value(stdout[1], "status").v = <<"error">>

\* A run whose query answered a JSON scalar ended with the catch-all envelope.
C1_Witness ==
    /\ Terminated
    /\ Is2xxJson(query_resp) /\ query_resp.body = JNum(5)
    /\ exit_code = {1}
    /\ Value(stdout[1], "error_message").v[1] = "Unexpected error: "

(***************************************************************************)
(* C2: when standard input is a JSON object lacking a required key, no     *)
(* network call is ever made and the run ends with exit code 1 and the     *)
(* error envelope naming the first missing key in the order apic_url,      *)
(* username, password, api_path.                                           *)
(***************************************************************************)
C2_Order == <<K_apic_url, K_username, K_password, K_api_path>>
C2_Missing == {i \in 1..Len(C2_Order) : ~HasMember(stdin.val, C2_Order[i])}
C2_FirstMissing == CHOOSE i \in C2_Missing : \A j \in C2_Missing : i <= j

C2_MissingKeyRejected ==
    (stdin.valid /\ stdin.val.t = "obj" /\ C2_Missing # {}) =>
        /\ net = <<>>
        /\ Terminated =>
              /\ IsError(stdout[1])
              /\ Value(stdout[1], "error_message").v =
                    <<"Missing required parameter: ", Join(C2_Order[C2_FirstMissing])>>
              /\ exit_code = {1}

\* username and api_path are both missing: username is the one named.
C2_Witness ==
    /\ Terminated
    /\ stdin.valid /\ stdin.val.t = "obj"
    /\ C2_Missing = {2, 4}
    /\ Value(stdout[1], "error_message").v = <<"Missing required parameter: ", "username">>

(***************************************************************************)
(* C3 as stated: when all four required fields are present and one of them *)
(* is null, no login POST is ever issued.                                  *)
(***************************************************************************)
C3_SomeNull == \E i \in 1..Len(RequiredParams) : Member(stdin.val, RequiredParams[i]) = JNull

C3_NullRejectedBeforeNetwork ==
    (stdin.valid /\ AllPresent(stdin.val) /\ C3_SomeNull) => Posts = {}

(***************************************************************************)
(* C3 amended: a required field that is absent, or an apic_url that is     *)
(* null, is rejected before any network activity: no call is ever issued   *)
(* and the run ends with the error envelope and exit code 1.               *)
(***************************************************************************)
C3_AbsentOrNullUrlRejected ==
    (/\ stdin.valid /\ stdin.val.t = "obj"
     /\ \/ ~AllPresent(stdin.val)
        \/ Member(stdin.val, K_apic_url) = JNull) =>
        /\ net = <<>>
        /\ Terminated => IsError(stdout[1]) /\ exit_code = {1}

\* All four fields present, apic_url null: rejected by the catch-all clause.
C3_Witness ==
    /\ Terminated
    /\ stdin.valid /\ AllPresent(stdin.val)
    /\ Member(stdin.val, K_apic_url) = JNull
    /\ net = <<>>
    /\ Value(stdout[1], "error_message").v[1] = "Unexpected error: "

(***************************************************************************)
(* C4 as stated: whenever the login returned a token and the query a 2xx   *)
(* response with any JSON value as body, the run ends with status          *)
(* "success", exit code 0 and json_data the serialisation of that value.   *)
(***************************************************************************)
C4_Succeeded ==
    /\ Value(stdout[1], "status").v = <<"success">>
    /\ exit_code = {0}
    /\ Loads(Value(stdout[1], "json_data").v[1]) = query_resp.body

C4_AnyJsonSucceeds ==
    (/\ Terminated
     /\ Is2xxJson(login_resp) /\ ValidToken(login_resp.body)
     /\ Is2xxJson(query_resp)) => C4_Succeeded

(***************************************************************************)
(* C4 amended: the same, for a query body that is a JSON object whose      *)
(* imdata, if present, is an array, an object or a string (totalCount of   *)
(* any type), or an array without the elements "imdata" and "totalCount",  *)
(* or a string without these two words in it.                              *)
(***************************************************************************)
C4_Countable(body) ==
    \/ /\ body.t = "obj"
       /\ HasMember(body, K_imdata) => Member(body, K_imdata).t \in {"arr", "obj", "str"}
    \/ /\ body.t = "arr"
       /\ \A i \in 1..Len(body.a) : body.a[i] \notin {JStr(K_imdata), JStr(K_totalCount)}
    \/ /\ body.t = "str"
       /\ ~Contains(body.s, K_imdata)
       /\ ~Contains(body.s, K_totalCount)

C4_CountableJsonSucceeds ==
    (/\ Terminated
     /\ Is2xxJson(login_resp) /\ ValidToken(login_resp.body)
     /\ Is2xxJson(query_resp)
     /\ C4_Countable(query_resp.body)) => C4_Succeeded

\* The query answered two records and a totalCount, and the run succeeded.
C4_Witness ==
    /\ Terminated
    /\ Is2xxJson(login_resp) /\ ValidToken(login_resp.body)
    /\ Is2xxJson(query_resp)
    /\ query_resp.body = Members(<< <<K_imdata, Records(2)>>, <<K_totalCount, JStr(<<"2">>)>> >>)
    /\ C4_Succeeded

(***************************************************************************)
(* C5: whenever the login answered 2xx with a JSON body that carries no    *)
(* token at imdata[0].aaaLogin.attributes.token, the run ends with the     *)
(* error envelope whose message contains "Authentication failed - no token *)
(* received", exit code 1, and no GET is ever issued.                      *)
(***************************************************************************)
C5_NoTokenReported ==
    (Is2xxJson(login_resp) /\ ~ValidToken(login_resp.body)) =>
        /\ Gets = {}
        /\ Terminated =>
              /\ IsError(stdout[1])
              /\ \E i \in 1..Len(Value(stdout[1], "error_message").v) :
                    Value(stdout[1], "error_message").v[i] =
                        "Authentication failed - no token received"
              /\ exit_code = {1}

(***************************************************************************)
(* C6 as stated: the path of every GET is "/api" or begins with "/api/".   *)
(***************************************************************************)
C6_UnderApiNamespace ==
    \A i \in Gets :
        \/ net[i].path = ApiPrefix
        \/ StartsWith(net[i].path, ApiPrefix \o <<"/">>)

(***************************************************************************)
(* C6 amended: the path of every GET, as handed to URL resolution, begins  *)
(* with the literal text "/api" and ends with the caller's api_path, with  *)
(* nothing put in front when api_path already begins with "/api", "/api"   *)
(* when it begins with "/", and "/api/" otherwise.                         *)
(***************************************************************************)
C6_StartsWithApiPrefix ==
    \A i \in Gets :
        LET given == api_path.s
            sent == net[i].path
            added == Len(sent) - Len(given)
        IN  /\ StartsWith(sent, ApiPrefix)
            /\ added >= 0
            /\ SubSeq(sent, added + 1, Len(sent)) = given
            /\ added = IF StartsWith(given, ApiPrefix) THEN 0
                       ELSE IF StartsWith(given, <<"/">>) THEN 4 ELSE 5

\* "/a" was sent as "/api/a".
C6_Witness ==
    /\ api_path = JStr(<<"/", "a">>)
    /\ \E i \in Gets : net[i].path = <<"/", "a", "p", "i", "/", "a">>

(***************************************************************************)
(* C7: when a call answered 2xx with a body that is not JSON, the message  *)
(* of the error envelope starts with the JSON prefix of that stage.        *)
(***************************************************************************)
C7_JsonPrefix ==
    Terminated =>
        /\ Is2xxNotJson(login_resp) =>
              Value(stdout[1], "error_message").v[1] =
                  "Invalid JSON response during authentication: "
        /\ Is2xxNotJson(query_resp) =>
              Value(stdout[1], "error_message").v[1] = "Invalid JSON response from API: "

(***************************************************************************)
(* C8: every run eventually terminates with its output written, even when  *)
(* the server never answers.                                               *)
(***************************************************************************)
C8_RunTerminates == <>(Terminated /\ Len(stdout) = 1)

(***************************************************************************)
(* C9: whatever is printed is a success envelope (json_data, status,       *)
(* timestamp, record_count exactly when the result has the key imdata,     *)
(* total_count exactly when it has the key totalCount, no error_message)   *)
(* or an error envelope (json_data "{}", status, error_message, timestamp  *)
(* and nothing else); every value is a string.                             *)
(***************************************************************************)
C9_Size(v) == CASE v.t = "arr" -> Len(v.a) [] v.t = "obj" -> Len(v.o) [] v.t = "str" -> Len(v.s)

C9_IsSuccess(out) ==
    /\ Keys(out) = {"json_data", "status", "timestamp"}
                   \cup (IF HasMember(result, K_imdata) THEN {"record_count"} ELSE {})
                   \cup (IF HasMember(result, K_totalCount) THEN {"total_count"} ELSE {})
    /\ Value(out, "status").v = <<"success">>
    /\ HasMember(result, K_imdata) =>
          Value(out, "record_count").v = <<DecStr(C9_Size(Member(result, K_imdata)))>>
    /\ (HasMember(result, K_totalCount) /\ Member(result, K_totalCount).t = "str") =>
          Value(out, "total_count").v = <<Join(Member(result, K_totalCount).s)>>
    /\ (HasMember(result, K_totalCount) /\ Member(result, K_totalCount).t = "num") =>
          Value(out, "total_count").v = <<DecStr(Member(result, K_totalCount).n)>>

C9_TwoShapes ==
    \A i \in 1..Len(stdout) :
        /\ WellFormedEnvelope(stdout[i])
        /\ Keys(stdout[i]) \subseteq {"json_data", "status", "timestamp", "record_count",
                                      "total_count", "error_message"}
        /\ "timestamp" \in Keys(stdout[i])
        /\ Value(stdout[i], "timestamp").v \in {<<DecStr(c)>> : c \in Clock}
        /\ \/ C9_IsSuccess(stdout[i])
           \/ IsError(stdout[i])

\* The round trip of the specification: two records and totalCount "2".
C9_Witness ==
    /\ Terminated
    /\ result = Members(<< <<K_imdata, Records(2)>>, <<K_totalCount, JStr(<<"2">>)>> >>)
    /\ Value(stdout[1], "record_count").v = <<"2">>
    /\ Value(stdout[1], "total_count").v = <<"2">>
    /\ "error_message" \notin Keys(stdout[1])

(***************************************************************************)
(* C10: the calls made are the login POST alone or the login POST followed *)
(* by one GET; the GET is made only after the login returned a token, and  *)
(* carries it as Cookie: APIC-cookie=<token>; the success envelope is      *)
(* printed only after the GET returned; once a stage has failed no call    *)
(* is made any more, and no call is ever repeated.                         *)
(***************************************************************************)
C10_TokenText(tok) == IF tok.t = "str" THEN Join(tok.s) ELSE DecStr(tok.n)

C10_InOrder ==
    /\ Len(net) <= 2
    /\ Posts \subseteq {1}
    /\ Gets \subseteq {2}
    /\ Gets # {} =>
          /\ Is2xxJson(login_resp)
          /\ ValidToken(login_resp.body)
          /\ net[2].Cookie = <<"APIC-cookie=", C10_TokenText(TokenAt(login_resp.body))>>
    /\ (stdout # <<>> /\ Value(stdout[1], "status").v = <<"success">>) =>
          /\ Gets # {}
          /\ Is2xxJson(query_resp)
    /\ login_resp # NoOutcome => Posts # {}
    /\ query_resp # NoOutcome => Gets # {}

C10_NoCallAfterFailure ==
    /\ (exc # NoExc \/ exc' # NoExc) => net' = net
    /\ login_resp # NoOutcome => Posts' = Posts
    /\ query_resp # NoOutcome => net' = net

C10_StagesInSequence == []C10_InOrder /\ [][C10_NoCallAfterFailure]_vars

\* The GET is on the wire with the token the login returned.
C10_Witness ==
    /\ pc = "query_wait"
    /\ Gets = {2}
    /\ net[2].Cookie = <<"APIC-cookie=", "T">>

====
